---- MODULE Spec2Model ----
(***************************************************************************)
(* Session / token lifecycle of bullhorn-api-helper.                       *)
(*                                                                         *)
(*   SimpleBullhornAuthClient      30-minute credential cache with         *)
(*                                 coalescing of concurrent token fetches  *)
(*   BullhornServerSideAuthClient  long-lived shared session, 6-hour       *)
(*                                 proactive refresh, cron refresh driver  *)
(*   getSimpleBHToken / getBHToken the multi-step OAuth exchange           *)
(*                                                                         *)
(* Node runs one continuation at a time; an operation is suspended only at *)
(* an await.  Every action below is one run-to-suspension slice of a       *)
(* handler, and the server's answer to a request is an input of the slice  *)
(* that resumes after it.                                                  *)
(***************************************************************************)
EXTENDS Integers, Sequences, FiniteSets, TLC

\* ---------------------------------------------------------------- bounds
MaxClientCalls == 4     \* getBullhornAPIClient() invocations per behaviour
MaxSimpleTicks == 2     \* clock advances in a behaviour of the caching client
MaxLogins      == 2     \* login() / startLoginCron() / cron invocations
MaxManagedTicks == 1    \* clock advances in a behaviour of the managed client

\* ------------------------------------------------------------- constants
MINUTE_MS    == 60 * 1000
CACHE_TTL_MS == 30 * 60 * 1000
SIX_HOURS_MS == 6 * 60 * 60 * 1000

\* clock granularity of the two clients' behaviours
SimpleTickMs  == 30 * MINUTE_MS
ManagedTickMs == 3 * 60 * MINUTE_MS

StartTime == 0
NoDate    == -1          \* null / undefined Date
NoPromise == 0           \* null tokenFetchPromise
NoTask    == 0           \* undefined task

\* Session lifetimes the authority may report, measured from the probe.
Lifetimes == {ManagedTickMs, SIX_HOURS_MS + ManagedTickMs}

\* The k-th session issued by the authority: its REST endpoint and token.
NoToken == [restUrl |-> 0, BhRestToken |-> 0]
ServerSession(k) == [restUrl |-> k, BhRestToken |-> k]

\* invocations of the managed client's asynchronous operations
LoginIds == 1 .. MaxLogins

\* what a request sent through `api` carries; 0 is undefined
NoRequest == [baseURL |-> 0, BhRestToken |-> 0]

NoLogin == [kind |-> "none", pc |-> "none", hadSession |-> FALSE,
            history |-> "none", skipped |-> FALSE, threw |-> FALSE,
            outcome |-> "none", installed |-> NoTask,
            seen |-> [restUrl |-> 0, BhRestToken |-> 0, loggedIn |-> FALSE]]

NoCall == [op |-> "none", threw |-> FALSE, sent |-> FALSE,
           request |-> NoRequest, everLoggedIn |-> FALSE,
           latest |-> NoToken, history |-> "none"]

VARIABLES
  now,                \* wall clock (ms)
  issued,             \* sessions issued by the authority so far
  \* SimpleBullhornAuthClient
  cachedToken, cacheExpiresAt, tokenFetchPromise,
  fetches,            \* the promises created by the token-fetch closure
  callers,            \* invocations of getBullhornAPIClient
  nAcq,               \* token acquisitions started
  nSettled,           \* token acquisitions settled
  lastOutcome,        \* how the latest settled acquisition ended
  nCalls, ticks,
  \* BullhornServerSideAuthClient
  restUrl, BhRestToken, sessionExpires, loggedIn,
  api,                \* api.defaults: baseURL and params.BhRestToken
  task,               \* the stored cron handle
  scheduled,          \* cron tasks that are scheduled and not stopped
  logins,             \* invocations of login / startLoginCron / cron callback
  nLogins,
  events,             \* what eventEmitter has emitted, in order
  cronHistory,        \* the latest completed of: start installed / stop
  last,               \* the synchronous call made in the latest step, if any
  \* getSimpleBHToken / getBHToken called on their own
  acqs                \* one acquisition of each variant, request by request

simpleVars == <<cachedToken, cacheExpiresAt, tokenFetchPromise, fetches,
                callers, nAcq, nSettled, lastOutcome>>
sessionVars == <<restUrl, BhRestToken, sessionExpires, loggedIn, api>>
managedVars == <<sessionVars, task, scheduled, logins, nLogins,
                 events, cronHistory, last>>
vars == <<now, issued, nCalls, ticks, simpleVars, managedVars, acqs>>

CallIds == 1 .. MaxClientCalls

\* ------------------------------------------------------ token acquisition
\* Positions of an acquisition: the request it is waiting on.
\* An answer of the authority: its status and, for the liveness call, the
\* reported expiry (NoDate: a value that is no valid time).
Answer(st, exp) == [status |-> st, sessionExpires |-> exp]
AuthStatuses == {"302code", "302nocode", "307", "error"}
OkFail       == {"ok", "error"}

Responses(step) ==
  CASE step \in {"authorize", "authorize2"} ->
         {Answer(st, NoDate) : st \in AuthStatuses}
    [] step = "ping" ->
         {Answer("error", NoDate), Answer("ok", NoDate)}
           \cup {Answer("ok", now + l) : l \in Lifetimes}
    [] OTHER -> {Answer(st, NoDate) : st \in OkFail}

\* getAuthorizationCode resumed at `step` with the authority's answer:
\* the next request it issues, or "return" / "throw".
getAuthorizationCode_FollowAll(step, resp) ==
  CASE resp.status = "307"     -> "authorize2"
    [] resp.status = "302code" -> "return"
    [] OTHER                   -> "throw"
getAuthorizationCode(step, resp) ==
  IF step = "authorize"
  THEN CASE resp.status = "307"     -> "authorize2"
         [] resp.status = "302code" -> "return"
         [] OTHER                   -> "throw"
  ELSE CASE resp.status = "302code" -> "return"
         [] OTHER                   -> "throw"

getAccessToken(resp)     == IF resp.status = "ok" THEN "return" ELSE "throw"
getRestTokenAndUrl(resp) == IF resp.status = "ok" THEN "return" ELSE "throw"

\* new Date(ms).toISOString() and new Date(iso)
toISOString(ms) == <<"iso", ms>>
DateOf(iso)     == iso[2]

\* getSessionExpiry: toISOString throws on an invalid time value
getSessionExpiry_Soft(resp) == "return"
getSessionExpiry(resp) ==
  IF resp.status = "ok" /\ resp.sessionExpires # NoDate
  THEN "return" ELSE "throw"

\* getSimpleBHToken resumed at `step`: next position, "return" or "throw".
getSimpleBHToken(step, resp) ==
  CASE step \in {"authorize", "authorize2"} ->
         LET r == getAuthorizationCode(step, resp)
         IN  IF r = "return" THEN "token" ELSE r
    [] step = "token" ->
         IF getAccessToken(resp) = "return" THEN "restLogin" ELSE "throw"
    [] step = "restLogin" -> getRestTokenAndUrl(resp)

\* getBHToken resumed at `step`: next position, "return" or "throw".
getBHToken(step, resp) ==
  CASE step \in {"authorize", "authorize2"} ->
         LET r == getAuthorizationCode(step, resp)
         IN  IF r = "return" THEN "token" ELSE r
    [] step = "token" ->
         IF getAccessToken(resp) = "return" THEN "restLogin" ELSE "throw"
    [] step = "restLogin" ->
         IF getRestTokenAndUrl(resp) = "return" THEN "ping" ELSE "throw"
    [] step = "ping" -> getSessionExpiry(resp)

\* How a getBHToken that stands at `step` can end: "return" or "throw", the
\* request it ended on and the answer to it.
RECURSIVE BHTokenOutcomes(_)
BHTokenOutcomes(step) ==
  UNION { LET nxt == getBHToken(step, r) IN
          IF nxt \in {"return", "throw"}
          THEN {[result |-> nxt, step |-> step, answer |-> r]}
          ELSE BHTokenOutcomes(nxt)
        : r \in Responses(step) }

\* ------------------------------------- the two acquisitions, on their own
Variants == {"simple", "full"}

\* the request an acquisition issues when it reaches `step`
RequestOf(step) ==
  CASE step = "authorize"  -> [name |-> "authorize", url |-> "cluster",
                               body |-> "credentials"]
    [] step = "authorize2" -> [name |-> "authorize", url |-> "location",
                               body |-> "credentials"]
    [] step = "token"      -> [name |-> "token", url |-> "cluster",
                               body |-> "code"]
    [] step = "restLogin"  -> [name |-> "restLogin", url |-> "cluster",
                               body |-> "access_token"]
    [] step = "ping"       -> [name |-> "ping", url |-> "restUrl",
                               body |-> "BhRestToken"]

\* the error a request's answer raises inside the step that awaits it
StepError(step, resp) ==
  CASE step \in {"authorize", "authorize2"} /\ resp.status = "302nocode" ->
         "No authorization code received"
    [] step = "ping" /\ resp.status = "ok" -> "RangeError: Invalid time value"
    [] OTHER -> "AxiosError"

\* the message of the Error that getBHToken's catch block throws
HintMessage ==
  "Failed to get BH Token, check credentials and try browsing to: authorize"

\* getBHToken: catch (error) { throw new Error(hint) }
getBHTokenError(raw) == HintMessage

\* getSimpleBHToken has no catch: the step's error propagates
getSimpleBHTokenError(raw) == raw

NoAcq == [step |-> "idle", requests |-> <<>>, answers |-> <<>>,
          result |-> "none", error |-> "none"]

\* getSimpleBHToken(...) / getBHToken(...) called: the first request goes out
Acquire(v) ==
  /\ acqs[v].step = "idle"
  /\ acqs' = [acqs EXCEPT ![v] =
       [NoAcq EXCEPT !.step = "authorize",
                     !.requests = <<RequestOf("authorize")>>]]
  /\ UNCHANGED <<now, issued, nCalls, ticks, simpleVars, managedVars>>

\* the acquisition resumed by the answer to its pending request
AcquireStep(v) ==
  /\ acqs[v].step \in {"authorize", "authorize2", "token", "restLogin", "ping"}
  /\ \E resp \in Responses(acqs[v].step) :
       LET a   == acqs[v]
           nxt == IF v = "full" THEN getBHToken(a.step, resp)
                  ELSE getSimpleBHToken(a.step, resp)
           ans == Append(a.answers, resp)
       IN
       acqs' = [acqs EXCEPT ![v] =
         CASE nxt = "return" ->
                [a EXCEPT !.step = "done", !.answers = ans,
                          !.result = "return"]
           [] nxt = "throw" ->
                [a EXCEPT !.step = "done", !.answers = ans,
                          !.result = "throw",
                          !.error = IF v = "full"
                                    THEN getBHTokenError(StepError(a.step, resp))
                                    ELSE getSimpleBHTokenError(
                                           StepError(a.step, resp))]
           [] OTHER ->
                [a EXCEPT !.step = nxt, !.answers = ans,
                          !.requests = Append(a.requests, RequestOf(nxt))]]
  /\ UNCHANGED <<now, issued, nCalls, ticks, simpleVars, managedVars>>

\* ------------------------------------------------ SimpleBullhornAuthClient
NoError  == <<0, "none">>
NoFetch  == [state |-> "unused", step |-> "none", value |-> NoToken,
             error |-> NoError, at |-> NoDate]
NoCaller == [pc |-> "none", at |-> NoDate, entry |-> FALSE,
             validUntil |-> NoDate, cached |-> NoToken, epoch |-> 0,
             inflight |-> FALSE, afterFailure |-> FALSE, hit |-> FALSE,
             started |-> FALSE, awaits |-> NoPromise, result |-> NoToken,
             error |-> NoError]

\* the cache test of getBullhornAPIClient
CacheValid_Inclusive ==
  cachedToken # NoToken /\ cacheExpiresAt # NoDate /\ cacheExpiresAt >= now
CacheValid ==
  cachedToken # NoToken /\ cacheExpiresAt # NoDate /\ cacheExpiresAt > now

\* the guard on starting the token-fetch closure
MustStartFetch_Always == TRUE
MustStartFetch == tokenFetchPromise = NoPromise

\* the closure's finally block: the marker after the closure has settled
FinallyClear_OnFailureOnly(ok) == IF ok THEN tokenFetchPromise ELSE NoPromise
FinallyClear_OnSuccessOnly(ok) == IF ok THEN NoPromise ELSE tokenFetchPromise
FinallyClear(ok) == NoPromise

\* the closure's new cacheExpiresAt, computed once getSimpleBHToken has
\* returned
NewCacheExpiresAt_NoTtl == now
NewCacheExpiresAt == now + CACHE_TTL_MS

\* getBullhornAPIClient(), up to its return or its await
getBullhornAPIClient ==
  /\ nCalls < MaxClientCalls
  /\ LET c    == nCalls + 1
         base == [NoCaller EXCEPT !.at = now,
                    !.entry = (cachedToken # NoToken),
                    !.validUntil = cacheExpiresAt,
                    !.cached = cachedToken,
                    !.epoch = nSettled,
                    !.inflight = (nAcq > nSettled),
                    !.afterFailure = (lastOutcome = "rejected")]
     IN
     /\ nCalls' = c
     /\ IF CacheValid
        THEN /\ callers' = [callers EXCEPT ![c] =
                  [base EXCEPT !.pc = "resolved", !.hit = TRUE,
                               !.result = cachedToken]]
             /\ UNCHANGED <<tokenFetchPromise, fetches, nAcq>>
        ELSE IF MustStartFetch
        THEN LET p == nAcq + 1 IN
             /\ nAcq' = p
             /\ fetches' = [fetches EXCEPT ![p] =
                  [NoFetch EXCEPT !.state = "pending", !.step = "authorize"]]
             /\ tokenFetchPromise' = p
             /\ callers' = [callers EXCEPT ![c] =
                  [base EXCEPT !.pc = "awaiting", !.started = TRUE,
                               !.awaits = p]]
        ELSE /\ callers' = [callers EXCEPT ![c] =
                  [base EXCEPT !.pc = "awaiting",
                               !.awaits = tokenFetchPromise]]
             /\ UNCHANGED <<tokenFetchPromise, fetches, nAcq>>
  /\ UNCHANGED <<now, issued, ticks, cachedToken, cacheExpiresAt, nSettled,
                 lastOutcome, acqs, managedVars>>

\* A caller whose awaited promise has settled: its continuation is a queued
\* microtask.
Resumable(c) ==
  /\ callers[c].pc = "awaiting"
  /\ fetches[callers[c].awaits].state \in {"fulfilled", "rejected"}

\* The token-fetch closure resumed by an answer of the authority.  An answer
\* is delivered by the event loop only once the microtask queue is empty.
FetchStep(p) ==
  /\ fetches[p].state = "pending"
  /\ \A c \in CallIds : ~Resumable(c)
  /\ \E resp \in Responses(fetches[p].step) :
       LET nxt == getSimpleBHToken(fetches[p].step, resp) IN
       CASE nxt = "return" ->
              LET token == ServerSession(issued + 1) IN
              /\ issued' = issued + 1
              /\ cachedToken' = token
              /\ cacheExpiresAt' = NewCacheExpiresAt
              /\ tokenFetchPromise' = FinallyClear(TRUE)
              /\ fetches' = [fetches EXCEPT ![p].state = "fulfilled",
                                            ![p].step = "none",
                                            ![p].value = token,
                                            ![p].at = now]
              /\ nSettled' = nSettled + 1
              /\ lastOutcome' = "fulfilled"
         [] nxt = "throw" ->
              /\ tokenFetchPromise' = FinallyClear(FALSE)
              /\ fetches' = [fetches EXCEPT ![p].state = "rejected",
                                            ![p].error = <<p, fetches[p].step>>,
                                            ![p].step = "none"]
              /\ nSettled' = nSettled + 1
              /\ lastOutcome' = "rejected"
              /\ UNCHANGED <<issued, cachedToken, cacheExpiresAt>>
         [] OTHER ->
              /\ fetches' = [fetches EXCEPT ![p].step = nxt]
              /\ UNCHANGED <<issued, cachedToken, cacheExpiresAt,
                             tokenFetchPromise, nSettled, lastOutcome>>
  /\ UNCHANGED <<now, nCalls, ticks, callers, nAcq, acqs, managedVars>>

\* A caller resumed after `await this.tokenFetchPromise`; the reactions of a
\* promise run in the order the callers subscribed.
ResumeCaller(c) ==
  /\ Resumable(c)
  /\ \A d \in CallIds : Resumable(d) => c <= d
  /\ LET f == fetches[callers[c].awaits] IN
     /\ callers' = [callers EXCEPT ![c] =
          IF f.state = "fulfilled"
          THEN [@ EXCEPT !.pc = "resolved", !.result = f.value]
          ELSE [@ EXCEPT !.pc = "rejected",
                         !.error = f.error]]
  /\ UNCHANGED <<now, issued, nCalls, ticks, cachedToken, cacheExpiresAt,
                 tokenFetchPromise, fetches, nAcq, nSettled, lastOutcome,
                 acqs, managedVars>>

TickSimple ==
  /\ ticks < MaxSimpleTicks
  /\ ticks' = ticks + 1
  /\ now' = now + SimpleTickMs
  /\ UNCHANGED <<issued, nCalls, acqs, simpleVars, managedVars>>

Init ==
  /\ now = StartTime
  /\ issued = 0
  /\ ticks = 0
  /\ nCalls = 0
  /\ cachedToken = NoToken
  /\ cacheExpiresAt = NoDate
  /\ tokenFetchPromise = NoPromise
  /\ fetches = [p \in CallIds |-> NoFetch]
  /\ callers = [c \in CallIds |-> NoCaller]
  /\ nAcq = 0
  /\ nSettled = 0
  /\ lastOutcome = "none"
  /\ restUrl = 0
  /\ BhRestToken = 0
  /\ sessionExpires = NoDate
  /\ loggedIn = FALSE
  /\ api = NoRequest
  /\ task = NoTask
  /\ scheduled = {}
  /\ logins = [i \in LoginIds |-> NoLogin]
  /\ nLogins = 0
  /\ events = <<>>
  /\ cronHistory = "none"
  /\ last = NoCall
  /\ acqs = [v \in Variants |-> NoAcq]

NextSimple ==
  \/ getBullhornAPIClient
  \/ \E p \in CallIds : FetchStep(p)
  \/ \E c \in CallIds : ResumeCaller(c)
  \/ TickSimple

SpecSimple == Init /\ [][NextSimple]_vars

\* -------------------------------------------- BullhornServerSideAuthClient
SessionFields ==
  [restUrl |-> restUrl, BhRestToken |-> BhRestToken,
   sessionExpires |-> sessionExpires, loggedIn |-> loggedIn, api |-> api]

\* the "login" events emitted so far and the session of the latest one
LoginEvents == {k \in 1 .. Len(events) : events[k].name = "login"}
LatestLogin ==
  IF LoginEvents = {} THEN NoToken
  ELSE events[CHOOSE k \in LoginEvents : \A j \in LoginEvents : j <= k].token

\* login(): the early return on a session not expiring within six hours
LoginSkip_NotExpired == sessionExpires # NoDate /\ sessionExpires > now
LoginSkip ==
  sessionExpires # NoDate /\ sessionExpires > now + SIX_HOURS_MS

\* login(): the assignments of the try block after getBHToken has returned
LoginTry_NoFlag(token) ==
  [restUrl |-> token.restUrl, BhRestToken |-> token.BhRestToken,
   sessionExpires |-> DateOf(token.sessionExpires), loggedIn |-> loggedIn,
   api |-> [baseURL |-> token.restUrl, BhRestToken |-> token.BhRestToken]]
LoginTry_StaleApi(token) ==
  [restUrl |-> token.restUrl, BhRestToken |-> token.BhRestToken,
   sessionExpires |-> DateOf(token.sessionExpires), loggedIn |-> TRUE,
   api |-> api]
LoginTry(token) ==
  [restUrl |-> token.restUrl, BhRestToken |-> token.BhRestToken,
   sessionExpires |-> DateOf(token.sessionExpires), loggedIn |-> TRUE,
   api |-> [baseURL |-> token.restUrl, BhRestToken |-> token.BhRestToken]]

\* login(): the fields at the time of emit("login", token), given the
\* fields before and after the assignments of the try block; the emit is
\* the last statement of the block
AtEmit_BeforeAssignments(before, after) == before
AtEmit(before, after) == after

\* login(): what the catch block leaves in the fields
LoginCatch_Logout == [SessionFields EXCEPT !.loggedIn = FALSE]
LoginCatch == SessionFields

SetSession(f) ==
  /\ restUrl' = f.restUrl
  /\ BhRestToken' = f.BhRestToken
  /\ sessionExpires' = f.sessionExpires
  /\ loggedIn' = f.loggedIn
  /\ api' = f.api

\* The continuation of `await this.login()` in startLoginCron is a queued
\* microtask: it runs before the event loop delivers an answer or a timer.
MicrotaskPending == \E i \in LoginIds : logins[i].pc = "afterLogin"

\* where an invocation stands once its login() has returned
AfterLogin(kind) == IF kind = "startLoginCron" THEN "afterLogin" ELSE "done"

\* login() from its call to its first await or early return, as invocation i
EnterLogin(i, kind) ==
  logins' = [logins EXCEPT ![i] =
    [NoLogin EXCEPT !.kind = kind,
                    !.hadSession = (sessionExpires # NoDate),
                    !.history = cronHistory,
                    !.skipped = LoginSkip,
                    !.pc = IF LoginSkip THEN AfterLogin(kind)
                           ELSE "getBHToken"]]

\* a direct call of login()
login ==
  /\ nLogins < MaxLogins
  /\ nLogins' = nLogins + 1
  /\ EnterLogin(nLogins + 1, "login")
  /\ UNCHANGED <<now, issued, nCalls, ticks, acqs, simpleVars, sessionVars, task,
                 scheduled, events, cronHistory>>
  /\ last' = NoCall

\* startLoginCron(): the guard on an already started cron
AlreadyStarted_Never == FALSE
AlreadyStarted == task # NoTask

\* startLoginCron() from its call to its throw or to the await of login()
startLoginCron ==
  IF AlreadyStarted
  THEN /\ last' = [NoCall EXCEPT !.op = "startLoginCron", !.threw = TRUE,
                     !.history = cronHistory]
       /\ UNCHANGED <<now, issued, nCalls, ticks, acqs, simpleVars, sessionVars,
                      task, scheduled, logins, nLogins, events, cronHistory>>
  ELSE /\ nLogins < MaxLogins
       /\ nLogins' = nLogins + 1
       /\ EnterLogin(nLogins + 1, "startLoginCron")
       /\ last' = NoCall
       /\ UNCHANGED <<now, issued, nCalls, ticks, acqs, simpleVars, sessionVars,
                      task, scheduled, events, cronHistory>>

\* startLoginCron(): whether cron.schedule is reached once the awaited
\* login() has ended with the given outcome ("none" for a skipped login);
\* login() catches its failure, so the await always returns
InstallsDriver_OnlyLoggedIn(outcome) == outcome # "failed"
InstallsDriver(outcome) == TRUE

\* startLoginCron() resumed after `await this.login()`: cron.schedule.  The
\* task it creates is named after the invocation that creates it.
StartInstall(i) ==
  /\ logins[i].pc = "afterLogin"
  /\ LET d == InstallsDriver(logins[i].outcome) IN
     /\ task' = IF d THEN i ELSE task
     /\ scheduled' = IF d THEN scheduled \cup {i} ELSE scheduled
     /\ cronHistory' = IF d THEN "started" ELSE cronHistory
     /\ logins' = [logins EXCEPT ![i].pc = "done",
                                 ![i].installed = IF d THEN i ELSE NoTask]
  /\ UNCHANGED <<now, issued, nCalls, ticks, acqs, simpleVars, sessionVars, nLogins,
                 events>>
  /\ last' = NoCall

\* the scheduler invokes the callback of a scheduled task
CronFire(t) ==
  /\ t \in scheduled
  /\ ~MicrotaskPending
  /\ nLogins < MaxLogins
  /\ nLogins' = nLogins + 1
  /\ EnterLogin(nLogins + 1, "cron")
  /\ UNCHANGED <<now, issued, nCalls, ticks, acqs, simpleVars, sessionVars, task,
                 scheduled, events, cronHistory>>
  /\ last' = NoCall

\* what a listener of "login" reads in fields f while the event is emitted
Seen(f) ==
  [restUrl |-> f.restUrl, BhRestToken |-> f.BhRestToken,
   loggedIn |-> f.loggedIn]

\* login(): whether the promise it returns rejects once the acquisition has
\* ended well (ok) or has thrown; the catch block rethrows nothing
LoginRejects_OnFailure(ok) == ~ok
LoginRejects(ok) == FALSE

\* login() resumed after `await getBHToken(...)`, its only await: the
\* acquisition of invocation i has run to its end on some answers of the
\* authority and has returned the session issued to it or has thrown.
LoginResume(i) ==
  /\ logins[i].pc = "getBHToken"
  /\ ~MicrotaskPending
  /\ \E o \in BHTokenOutcomes("authorize") :
       IF o.result = "return"
       THEN LET token == [restUrl |-> ServerSession(i).restUrl,
                          BhRestToken |-> ServerSession(i).BhRestToken,
                          sessionExpires |->
                            toISOString(o.answer.sessionExpires)]
            IN
            /\ SetSession(LoginTry(token))
            /\ events' = Append(events,
                 [name |-> "login", id |-> i, token |-> ServerSession(i)])
            /\ logins' = [logins EXCEPT
                 ![i].pc = AfterLogin(logins[i].kind),
                 ![i].threw = LoginRejects(TRUE),
                 ![i].seen = Seen(AtEmit(SessionFields, LoginTry(token))),
                 ![i].outcome = "ok"]
       ELSE /\ SetSession(LoginCatch)
            /\ events' = Append(events,
                 [name |-> "loginFailed", id |-> i, token |-> NoToken])
            /\ logins' = [logins EXCEPT
                 ![i].pc = AfterLogin(logins[i].kind),
                 ![i].threw = LoginRejects(FALSE),
                 ![i].outcome = "failed"]
  /\ UNCHANGED <<now, issued, nCalls, ticks, acqs, simpleVars, task, scheduled,
                 nLogins, cronHistory>>
  /\ last' = NoCall

\* stopLoginCron() applied to a handle and the scheduler's tasks
StopEffect_KeepHandle(t, s) == [task |-> t, scheduled |-> s \ {t}]
StopEffect(t, s) ==
  IF t # NoTask THEN [task |-> NoTask, scheduled |-> s \ {t}]
  ELSE [task |-> t, scheduled |-> s]

\* stopLoginCron(): what it leaves of the invocations of login(); it touches
\* the task only
InFlightAfterStop_Cancel(l) ==
  [i \in LoginIds |->
     IF l[i].pc = "getBHToken"
     THEN [l[i] EXCEPT !.pc = "done", !.outcome = "cancelled"]
     ELSE l[i]]
InFlightAfterStop(l) == l

stopLoginCron ==
  /\ task' = StopEffect(task, scheduled).task
  /\ scheduled' = StopEffect(task, scheduled).scheduled
  /\ cronHistory' = "stopped"
  /\ last' = [NoCall EXCEPT !.op = "stopLoginCron"]
  /\ logins' = InFlightAfterStop(logins)
  /\ UNCHANGED <<now, issued, nCalls, ticks, acqs, simpleVars, sessionVars,
                 nLogins, events>>

\* makeRequest(config) and ping(): what they leave of the session fields;
\* they assign none of them
AfterRequest_Logout(f) == [f EXCEPT !.loggedIn = FALSE]
AfterRequest(f) == f

\* makeRequest(config): the guard on a missing token
NotLoggedIn_Never == FALSE
NotLoggedIn == BhRestToken = 0

makeRequest ==
  /\ last' = IF NotLoggedIn
             THEN [NoCall EXCEPT !.op = "makeRequest", !.threw = TRUE,
                     !.everLoggedIn = (LoginEvents # {}),
                     !.latest = LatestLogin]
             ELSE [NoCall EXCEPT !.op = "makeRequest", !.sent = TRUE,
                     !.request = api,
                     !.everLoggedIn = (LoginEvents # {}),
                     !.latest = LatestLogin]
  /\ SetSession(AfterRequest(SessionFields))
  /\ UNCHANGED <<now, issued, nCalls, ticks, acqs, simpleVars, task,
                 scheduled, logins, nLogins, events, cronHistory>>

\* ping(): api.get("/ping") with the stored token as request parameter
ping ==
  /\ last' = [NoCall EXCEPT !.op = "ping", !.sent = TRUE,
                !.request = [baseURL |-> api.baseURL,
                             BhRestToken |-> BhRestToken],
                !.everLoggedIn = (LoginEvents # {}),
                !.latest = LatestLogin]
  /\ SetSession(AfterRequest(SessionFields))
  /\ UNCHANGED <<now, issued, nCalls, ticks, acqs, simpleVars, task,
                 scheduled, logins, nLogins, events, cronHistory>>

TickManaged ==
  /\ ticks < MaxManagedTicks
  /\ ~MicrotaskPending
  /\ ticks' = ticks + 1
  /\ now' = now + ManagedTickMs
  /\ last' = NoCall
  /\ UNCHANGED <<issued, nCalls, acqs, simpleVars, sessionVars, task, scheduled,
                 logins, nLogins, events, cronHistory>>

NextManaged ==
  \/ login
  \/ startLoginCron
  \/ \E i \in LoginIds : StartInstall(i)
  \/ \E t \in 1 .. MaxLogins : CronFire(t)
  \/ \E i \in LoginIds : LoginResume(i)
  \/ stopLoginCron
  \/ makeRequest
  \/ ping
  \/ TickManaged

SpecManaged == Init /\ [][NextManaged]_vars

NextAcquire ==
  \/ \E v \in Variants : Acquire(v)
  \/ \E v \in Variants : AcquireStep(v)

SpecAcquire == Init /\ [][NextAcquire]_vars

\* ---------------------------------------------------------------- claims
Called(c)  == callers[c].pc # "none"
Settled(c) == callers[c].pc \in {"resolved", "rejected"}

\* the calls that missed the cache while the e-th settlement was the latest,
\* i.e. each began before the acquisition pending for them settled
MissCallers(e) ==
  {c \in CallIds : Called(c) /\ ~callers[c].hit /\ callers[c].epoch = e}

\* C1: the cache-miss calls that begin before the pending acquisition
\* settles start exactly one acquisition between them, and those that have
\* returned all resolved with the same session or all rejected with the
\* same error.
C1_Coalescing ==
  \A e \in 0 .. MaxClientCalls :
    LET M == MissCallers(e) IN
    M # {} =>
      /\ Cardinality({c \in M : callers[c].started}) = 1
      /\ \A c1, c2 \in M :
           (Settled(c1) /\ Settled(c2)) =>
             /\ callers[c1].pc = callers[c2].pc
             /\ callers[c1].result = callers[c2].result
             /\ callers[c1].error = callers[c2].error
             /\ callers[c1].pc = "resolved" => callers[c1].result # NoToken
             /\ callers[c1].pc = "rejected" => callers[c1].error # NoError

C1_Witness ==
  \E e \in 0 .. MaxClientCalls :
    /\ Cardinality(MissCallers(e)) >= 3
    /\ \A c \in MissCallers(e) : callers[c].pc = "resolved"

\* C2 as stated: a call strictly before validUntil returns the cached
\* session without starting an acquisition, and a call at or after
\* validUntil starts a new acquisition.
C2_Original ==
  \A c \in CallIds :
    (Called(c) /\ callers[c].entry) =>
      IF callers[c].at < callers[c].validUntil
      THEN /\ callers[c].pc = "resolved"
           /\ callers[c].result = callers[c].cached
           /\ ~callers[c].started
      ELSE callers[c].started

\* C2 amended: a call strictly before validUntil returns the cached session
\* without starting an acquisition; a call at or after validUntil starts a
\* new acquisition unless one is already in flight, and then it awaits that
\* one.
C2_CacheWindow ==
  \A c \in CallIds :
    (Called(c) /\ callers[c].entry) =>
      IF callers[c].at < callers[c].validUntil
      THEN /\ callers[c].pc = "resolved"
           /\ callers[c].result = callers[c].cached
           /\ ~callers[c].started
      ELSE /\ ~callers[c].hit
           /\ callers[c].started <=> ~callers[c].inflight
           /\ callers[c].awaits > callers[c].epoch

C2_Witness ==
  \E c1, c2, c3 \in CallIds :
    /\ callers[c1].entry /\ callers[c1].at < callers[c1].validUntil
    /\ callers[c1].hit
    /\ callers[c2].entry /\ callers[c2].at = callers[c2].validUntil
    /\ callers[c2].started
    /\ callers[c3].entry /\ callers[c3].at >= callers[c3].validUntil
    /\ callers[c3].inflight /\ callers[c3].pc = "resolved"

\* C3: when the in-flight acquisition fails, every caller that awaited it
\* is rejected with that failure, the in-flight marker is cleared, and the
\* next call that misses the cache starts a fresh acquisition.
C3_FailureResets ==
  /\ \A p \in CallIds :
       fetches[p].state = "rejected" =>
         /\ tokenFetchPromise # p
         /\ \A c \in CallIds :
              (callers[c].awaits = p /\ callers[c].pc # "awaiting") =>
                /\ callers[c].pc = "rejected"
                /\ callers[c].error = fetches[p].error
                /\ callers[c].error # NoError
  /\ (nAcq = nSettled) => tokenFetchPromise = NoPromise
  /\ \A c \in CallIds :
       (Called(c) /\ callers[c].afterFailure /\ ~callers[c].inflight
          /\ ~callers[c].hit) =>
         /\ callers[c].started
         /\ callers[c].awaits > callers[c].epoch

C3_Witness ==
  \E c1, c2, c3 \in CallIds :
    /\ c1 # c2
    /\ callers[c1].pc = "rejected" /\ callers[c2].pc = "rejected"
    /\ callers[c1].awaits = callers[c2].awaits
    /\ callers[c3].afterFailure /\ callers[c3].started
    /\ callers[c3].pc = "resolved"

\* an invocation of login(), directly, from startLoginCron or from the cron
\* callback, is made in this step
NewInvocation(i) == logins[i].kind = "none" /\ logins'[i].kind # "none"

\* C4: login() starts no acquisition and changes no state when a session is
\* stored with sessionExpires > now + 6h; when no session is stored or
\* sessionExpires <= now + 6h it starts a full acquisition.
C4_LoginSkip ==
  [][\A i \in LoginIds :
       NewInvocation(i) =>
         IF sessionExpires # NoDate /\ sessionExpires > now + SIX_HOURS_MS
         THEN /\ logins'[i].skipped
              /\ logins'[i].pc # "getBHToken"
              /\ UNCHANGED <<sessionVars, events, task, scheduled>>
         ELSE /\ ~logins'[i].skipped
              /\ logins'[i].pc = "getBHToken"]_vars

C4_Witness ==
  \E i, j \in LoginIds :
    /\ logins[j].outcome = "ok" /\ ~logins[j].hadSession
    /\ logins[i].skipped /\ logins[i].hadSession /\ logins[i].pc = "done"
    /\ sessionExpires > now + SIX_HOURS_MS

EventsOf(i, name) ==
  {k \in 1 .. Len(events) : events[k].id = i /\ events[k].name = name}

\* C5: a login() attempt that fails changes none of restUrl, BhRestToken,
\* sessionExpires, loggedIn (nor the api defaults), neither while it is in
\* flight nor when it fails, and emits exactly one loginFailed event and no
\* login event.
C5_FailedLogin ==
  /\ [][\A i \in LoginIds :
          (logins[i].outcome = "none" /\ logins'[i].outcome = "failed") =>
            /\ UNCHANGED sessionVars
            /\ events' = Append(events, [name |-> "loginFailed", id |-> i,
                                         token |-> NoToken])]_vars
  /\ [][(sessionVars' # sessionVars) =>
          \E i \in LoginIds :
            logins[i].outcome = "none" /\ logins'[i].outcome = "ok"]_vars
  /\ [](\A i \in LoginIds :
          logins[i].outcome = "failed" =>
            /\ Cardinality(EventsOf(i, "loginFailed")) = 1
            /\ EventsOf(i, "login") = {})

C5_Witness ==
  /\ Len(events) = 2
  /\ events[1].name = "login" /\ events[2].name = "loginFailed"
  /\ logins[events[2].id].outcome = "failed"
  /\ loggedIn
  /\ BhRestToken = events[1].token.BhRestToken
  /\ restUrl = events[1].token.restUrl

\* a call of startLoginCron() is made in this step: it throws or it goes on
\* to login()
StartThrew     == last'.op = "startLoginCron" /\ last'.threw
StartEntered(i) == NewInvocation(i) /\ logins'[i].kind = "startLoginCron"

\* C6: startLoginCron() called after a startLoginCron() has completed, with
\* no stopLoginCron() since, throws and schedules nothing; called after
\* stopLoginCron() it does not throw, and when it completes it has scheduled
\* a task and stored its handle.
C6_StartStop ==
  /\ [][(StartThrew \/ \E i \in LoginIds : StartEntered(i)) =>
          CASE cronHistory = "started" ->
                 /\ StartThrew
                 /\ \A i \in LoginIds : ~StartEntered(i)
                 /\ UNCHANGED <<task, scheduled, logins>>
            [] cronHistory = "stopped" ->
                 /\ ~StartThrew
                 /\ \E i \in LoginIds : StartEntered(i)
            [] OTHER -> TRUE]_vars
  /\ [][\A i \in LoginIds :
          (logins[i].pc = "afterLogin" /\ logins'[i].pc # "afterLogin") =>
            /\ task' = i
            /\ scheduled' = scheduled \cup {i}
            /\ i \notin scheduled]_vars
  /\ [](\A i \in LoginIds :
          (logins[i].kind = "startLoginCron" /\ logins[i].pc = "done") =>
            logins[i].installed = i)

C6_Witness ==
  /\ last.op = "startLoginCron" /\ last.threw /\ last.history = "started"
  /\ \E i \in LoginIds :
       /\ logins[i].kind = "startLoginCron" /\ logins[i].history = "stopped"
       /\ logins[i].installed = i /\ task = i /\ scheduled = {i}

\* C7: in every reachable state at most one recurring refresh driver is
\* scheduled for the client.
C7_AtMostOneDriver == Cardinality(scheduled) <= 1

\* C8: makeRequest throws and sends nothing while no login has succeeded;
\* after a successful login it sends the request with the stored restUrl and
\* BhRestToken, which are those of the latest successful login.
C8_MakeRequest ==
  last.op = "makeRequest" =>
    IF ~last.everLoggedIn
    THEN last.threw /\ ~last.sent /\ last.request = NoRequest
    ELSE /\ ~last.threw /\ last.sent
         /\ last.request = [baseURL |-> restUrl, BhRestToken |-> BhRestToken]
         /\ last.request = [baseURL |-> last.latest.restUrl,
                            BhRestToken |-> last.latest.BhRestToken]
         /\ last.latest = LatestLogin
         /\ last.latest # NoToken

C8_Witness ==
  /\ last.op = "makeRequest" /\ last.sent
  /\ Len(events) = 2 /\ events[1].name = "login" /\ events[2].name = "login"
  /\ last.request.BhRestToken = events[2].token.BhRestToken
  /\ events[1].token # events[2].token

\* C9: ping() called while no session token is stored throws and sends no
\* liveness call.
C9_PingNeedsSession ==
  (last.op = "ping" /\ BhRestToken = 0) => (last.threw /\ ~last.sent)

\* C10: stopLoginCron() stops the task of the stored handle and clears the
\* handle; without a stored handle it changes nothing; it never throws; and
\* applying it twice gives the state that applying it once gives.
C10_StopIdempotent ==
  /\ [](LET once  == StopEffect(task, scheduled)
            twice == StopEffect(once.task, once.scheduled)
        IN  twice = once)
  /\ [][(last'.op = "stopLoginCron") =>
          /\ ~last'.threw
          /\ IF task # NoTask
             THEN task' = NoTask /\ scheduled' = scheduled \ {task}
             ELSE UNCHANGED <<task, scheduled>>
          /\ UNCHANGED <<sessionVars, logins, events>>]_vars

C10_Witness ==
  /\ last.op = "stopLoginCron"
  /\ task = NoTask
  /\ \E i \in LoginIds : logins[i].installed = i /\ i \notin scheduled

AuthRequests(a) ==
  {k \in 1 .. Len(a.requests) : a.requests[k].name = "authorize"}

\* C11: after a 307 answer the credential form is posted once more, to the
\* Location of the answer; a 302 with a code then lets the acquisition go on
\* to the token exchange; a second 307 is not followed and the acquisition
\* fails; an acquisition issues at most two authorize requests.
C11_RedirectOnce ==
  \A v \in Variants :
    LET a == acqs[v]
        n == Len(a.answers)
    IN
    /\ Cardinality(AuthRequests(a)) <= 2
    /\ (n >= 1 /\ a.answers[1].status = "307") =>
         /\ Len(a.requests) >= 2
         /\ a.requests[2].name = "authorize"
         /\ a.requests[2].url = "location"
         /\ a.requests[2].body = a.requests[1].body
    /\ (n >= 1 /\ a.answers[1].status # "307") =>
         Cardinality(AuthRequests(a)) = 1
    /\ (n >= 2 /\ a.answers[1].status = "307"
          /\ a.answers[2].status = "302code") =>
         /\ Len(a.requests) >= 3
         /\ a.requests[3].name = "token"
    /\ (n >= 2 /\ a.answers[1].status = "307"
          /\ a.answers[2].status = "307") =>
         /\ a.result = "throw"
         /\ Len(a.requests) = 2

C11_Witness ==
  /\ Len(acqs["full"].answers) >= 2
  /\ acqs["full"].answers[1].status = "307"
  /\ acqs["full"].answers[2].status = "302code"
  /\ acqs["full"].result = "return"
  /\ Len(acqs["simple"].answers) = 2
  /\ acqs["simple"].answers[1].status = "307"
  /\ acqs["simple"].answers[2].status = "307"
  /\ acqs["simple"].result = "throw"

\* C12: in both variants an acquisition that fails, at whatever step, throws
\* the error that carries the hint at the manual-consent authorize URL.
C12_HintOnFailure ==
  \A v \in Variants :
    acqs[v].result = "throw" => acqs[v].error = HintMessage

ProbeFailed(resp) == resp.status # "ok" \/ resp.sessionExpires = NoDate

\* C13: the full acquisition issues the expiry probe after a successful
\* session-token exchange and fails as a whole when the probe fails; the
\* simple acquisition never issues the probe and returns exactly when the
\* session-token exchange succeeds.
C13_ProbeFatalOnlyToFull ==
  /\ LET a == acqs["full"]
         n == Len(a.requests)
     IN
     /\ \A k \in 1 .. Len(a.answers) :
          (a.requests[k].name = "restLogin" /\ a.answers[k].status = "ok") =>
            (n = k + 1 /\ a.requests[n].name = "ping")
     /\ (a.step = "done" /\ a.requests[n].name = "ping") =>
          (a.result = "throw" <=> ProbeFailed(a.answers[n]))
     /\ a.result = "return" => a.requests[n].name = "ping"
  /\ LET a == acqs["simple"]
         n == Len(a.requests)
     IN
     /\ \A k \in 1 .. n : a.requests[k].name # "ping"
     /\ a.step = "done" =>
          (a.result = "return" <=>
             (a.requests[n].name = "restLogin" /\ a.answers[n].status = "ok"))

C13_Witness ==
  /\ acqs["full"].result = "throw"
  /\ acqs["full"].requests[Len(acqs["full"].requests)].name = "ping"
  /\ acqs["full"].answers[Len(acqs["full"].answers) - 1].status = "ok"
  /\ acqs["simple"].result = "return"
\* the invocations of login() whose acquisition has returned a session
Succeeded == {i \in LoginIds : logins[i].outcome = "ok"}

\* C14: loggedIn is true exactly when restUrl and BhRestToken are stored,
\* and exactly when some acquisition has succeeded; the stored pair is then
\* the one of the latest login event; until the first success loggedIn is
\* false and nothing is stored.
C14_LoggedInIffSession ==
  /\ loggedIn <=> (BhRestToken # 0 /\ restUrl # 0)
  /\ loggedIn <=> (Succeeded # {})
  /\ loggedIn <=> (LoginEvents # {})
  /\ loggedIn =>
       [restUrl |-> restUrl, BhRestToken |-> BhRestToken] = LatestLogin
  /\ ~loggedIn =>
       /\ restUrl = 0 /\ BhRestToken = 0 /\ sessionExpires = NoDate
       /\ api = NoRequest

C14_Witness ==
  /\ Len(events) = 2
  /\ events[1].name = "loginFailed" /\ events[2].name = "login"
  /\ loggedIn
  /\ BhRestToken = events[2].token.BhRestToken
  /\ BhRestToken # 0

\* the acquisition of the closure that stored the cached session
StoredFetch ==
  {p \in CallIds : fetches[p].state = "fulfilled"
                   /\ fetches[p].value = cachedToken}

\* C15: cacheExpiresAt is the time at which the stored session was acquired
\* plus CACHE_TTL_MS (and unset while nothing is stored); a call that hits
\* the cache, a call that awaits the pending acquisition and an acquisition
\* that fails leave it alone: it changes only in the step in which an
\* acquisition succeeds and stores a new session.
C15_ValidUntil ==
  /\ [](IF cachedToken = NoToken
        THEN cacheExpiresAt = NoDate /\ StoredFetch = {}
        ELSE /\ Cardinality(StoredFetch) = 1
             /\ \A p \in StoredFetch :
                  /\ fetches[p].at # NoDate
                  /\ cacheExpiresAt = fetches[p].at + CACHE_TTL_MS
                  /\ \A q \in CallIds :
                       fetches[q].state = "fulfilled" => q <= p)
  /\ [][(cacheExpiresAt' # cacheExpiresAt) =>
          \E p \in CallIds :
            /\ fetches[p].state = "pending"
            /\ fetches'[p].state = "fulfilled"
            /\ cachedToken' = fetches'[p].value
            /\ cachedToken' # cachedToken
            /\ cacheExpiresAt' = now + CACHE_TTL_MS]_vars
  /\ [][(nCalls' # nCalls) => UNCHANGED <<cachedToken, cacheExpiresAt>>]_vars
  /\ [][(\E p \in CallIds : fetches[p].state = "pending"
                            /\ fetches'[p].state = "rejected") =>
          UNCHANGED <<cachedToken, cacheExpiresAt>>]_vars

C15_Witness ==
  \E p, q \in CallIds :
    /\ p < q
    /\ fetches[p].state = "rejected"
    /\ q \in StoredFetch
    /\ fetches[q].at > StartTime
    /\ cacheExpiresAt = fetches[q].at + CACHE_TTL_MS
    /\ \E c \in CallIds : callers[c].hit /\ callers[c].result = cachedToken
    /\ \E c \in CallIds :
         callers[c].awaits = q /\ ~callers[c].started
           /\ callers[c].pc = "resolved"

InFlight == {i \in LoginIds : logins[i].pc = "getBHToken"}

\* C17: at most one acquisition of the client is in flight at any time.
C17_OneRefreshInFlight == Cardinality(InFlight) <= 1

\* an acquisition succeeds in this step as invocation i
Succeeds(i) == logins[i].outcome = "none" /\ logins'[i].outcome = "ok"

\* C18: in every state restUrl, BhRestToken, sessionExpires and the api
\* defaults are all unset or all set, the first two and the api defaults
\* being those of one successful acquisition; they change only in the step
\* in which an acquisition succeeds, all in that step, sessionExpires to the
\* expiry reported to that acquisition; a makeRequest or ping made while a
\* login() is suspended sends the base URL and the token of one acquisition
\* that has completed.
C18_NoTornSession ==
  /\ [](\/ /\ restUrl = 0 /\ BhRestToken = 0 /\ sessionExpires = NoDate
           /\ api = NoRequest
        \/ \E i \in Succeeded :
             /\ restUrl = ServerSession(i).restUrl
             /\ BhRestToken = ServerSession(i).BhRestToken
             /\ sessionExpires # NoDate
             /\ api = [baseURL |-> ServerSession(i).restUrl,
                       BhRestToken |-> ServerSession(i).BhRestToken])
  /\ [][(\E i \in LoginIds : Succeeds(i)) \/ UNCHANGED sessionVars]_vars
  /\ [][\A i \in LoginIds :
          Succeeds(i) =>
            /\ restUrl' = ServerSession(i).restUrl
            /\ BhRestToken' = ServerSession(i).BhRestToken
            /\ \E l \in Lifetimes : sessionExpires' = now + l
            /\ api' = [baseURL |-> ServerSession(i).restUrl,
                       BhRestToken |-> ServerSession(i).BhRestToken]]_vars
  /\ []((last.op \in {"makeRequest", "ping"} /\ last.sent
           /\ InFlight # {}) =>
          \/ last.request = NoRequest /\ BhRestToken = 0
          \/ \E i \in Succeeded :
               /\ i \notin InFlight
               /\ last.request = [baseURL |-> ServerSession(i).restUrl,
                                  BhRestToken |->
                                    ServerSession(i).BhRestToken]
               /\ BhRestToken = ServerSession(i).BhRestToken)

C18_Witness ==
  /\ last.op = "makeRequest" /\ last.sent
  /\ InFlight # {}
  /\ \E i \in Succeeded :
       last.request = [baseURL |-> ServerSession(i).restUrl,
                       BhRestToken |-> ServerSession(i).BhRestToken]

\* C19: whenever makeRequest sends a request while a login() is suspended in
\* flight, the stored session has not expired: sessionExpires > now.
C19_ReadNotExpired ==
  (last.op = "makeRequest" /\ last.sent /\ InFlight # {}) =>
    sessionExpires > now

\* invocation i of login() has been in flight since before the latest
\* stopLoginCron()
StoppedInFlight(i) ==
  /\ i \in InFlight
  /\ logins[i].history # "stopped"
  /\ cronHistory = "stopped"

\* invocation i resumes in this step with a session acquired, stores it,
\* sets loggedIn and emits login
CompletesOk(i) ==
  /\ LoginResume(i)
  /\ logins'[i].outcome = "ok"
  /\ restUrl' = ServerSession(i).restUrl
  /\ BhRestToken' = ServerSession(i).BhRestToken
  /\ sessionExpires' # NoDate
  /\ loggedIn'
  /\ events' = Append(events, [name |-> "login", id |-> i,
                               token |-> ServerSession(i)])

\* C20: stopLoginCron() called while a login() is in flight leaves that
\* invocation, the session and the events alone and only removes the stored
\* task from the scheduler; the invocation can still resume, and when its
\* acquisition returns a session after the stop, the session becomes the
\* acquired one, loggedIn is set and login is emitted.
C20_StopKeepsInFlight ==
  /\ [][(last'.op = "stopLoginCron") =>
          /\ UNCHANGED <<logins, sessionVars, events>>
          /\ scheduled' = scheduled \ {task}]_vars
  /\ []((last.op = "stopLoginCron" /\ ~MicrotaskPending) =>
          \A i \in InFlight : ENABLED CompletesOk(i))
  /\ [][\A i \in LoginIds :
          (StoppedInFlight(i) /\ logins'[i].pc # "getBHToken") =>
            /\ logins'[i].outcome \in {"ok", "failed"}
            /\ logins'[i].outcome = "ok" =>
                 /\ restUrl' = ServerSession(i).restUrl
                 /\ BhRestToken' = ServerSession(i).BhRestToken
                 /\ sessionExpires' # NoDate
                 /\ loggedIn'
                 /\ events' = Append(events, [name |-> "login", id |-> i,
                                              token |-> ServerSession(i)])]_vars

C20_Witness ==
  /\ last.op = "stopLoginCron"
  /\ task = NoTask /\ scheduled = {}
  /\ \E t \in LoginIds : logins[t].installed = t
  /\ \E i \in LoginIds :
       /\ StoppedInFlight(i)
       /\ logins[i].kind = "cron"
       /\ ENABLED CompletesOk(i)

\* C21: makeRequest, ping() and stopLoginCron() leave restUrl, BhRestToken,
\* sessionExpires, loggedIn and the api defaults unchanged, start no
\* invocation of login() and emit nothing; the session fields change only in
\* a step in which the acquisition of an invocation of login() succeeds.
C21_OnlyLoginMutates ==
  /\ [][(last'.op \in {"makeRequest", "ping", "stopLoginCron"}) =>
          /\ UNCHANGED <<restUrl, BhRestToken, sessionExpires, loggedIn, api>>
          /\ UNCHANGED <<logins, nLogins, events>>
          /\ InFlight' = InFlight]_vars
  /\ [][(<<restUrl, BhRestToken, sessionExpires, loggedIn>>' #
           <<restUrl, BhRestToken, sessionExpires, loggedIn>>) =>
          /\ last'.op = "none"
          /\ \E i \in LoginIds :
               /\ Succeeds(i)
               /\ logins[i].kind \in {"login", "startLoginCron", "cron"}]_vars

C21_Witness ==
  /\ last.op = "ping" /\ last.sent
  /\ cronHistory = "stopped"
  /\ loggedIn /\ BhRestToken # 0
  /\ InFlight = {}
  /\ Len(events) = 1

Pending == {p \in CallIds : fetches[p].state = "pending"}

\* C23: tokenFetchPromise is set exactly while an acquisition started by
\* the client is pending, and it is then that acquisition; the step in which
\* the acquisition settles, fulfilled or rejected, clears it, so it never
\* holds a settled acquisition.
C23_MarkerIffPending ==
  /\ [](tokenFetchPromise # NoPromise <=> Pending # {})
  /\ [](Pending \subseteq {tokenFetchPromise})
  /\ [](tokenFetchPromise # NoPromise =>
          fetches[tokenFetchPromise].state = "pending")
  /\ [][\A p \in CallIds :
          (fetches[p].state = "pending" /\ fetches'[p].state # "pending") =>
            /\ fetches'[p].state \in {"fulfilled", "rejected"}
            /\ tokenFetchPromise = p
            /\ tokenFetchPromise' = NoPromise]_vars
  /\ [][\A c \in CallIds :
          (~Called(c) /\ Called(c)' /\ callers'[c].awaits # NoPromise) =>
            fetches'[callers'[c].awaits].state = "pending"]_vars

C23_Witness ==
  \E p, q, r \in CallIds :
    /\ fetches[p].state = "rejected"
    /\ fetches[q].state = "fulfilled"
    /\ fetches[r].state = "pending"
    /\ tokenFetchPromise = r

\* the invocations of startLoginCron() whose login() has failed
StartFailed ==
  {i \in LoginIds : logins[i].kind = "startLoginCron"
                    /\ logins[i].outcome = "failed"}

\* C24: a startLoginCron() whose login() fails has emitted loginFailed, does
\* not throw and goes on to schedule the task and store its handle, leaving
\* the session unset if it was; a cron invocation that succeeds while no
\* session is stored stores its session and sets loggedIn.
C24_DriverAfterFailedLogin ==
  /\ [][\A i \in StartFailed :
          (logins[i].pc = "afterLogin" /\ logins'[i].pc # "afterLogin") =>
            /\ task' = i
            /\ i \in scheduled'
            /\ logins'[i].installed = i
            /\ UNCHANGED <<sessionVars, events>>]_vars
  /\ [](\A i \in StartFailed :
          /\ Cardinality(EventsOf(i, "loginFailed")) = 1
          /\ ~logins[i].threw
          /\ logins[i].pc = "afterLogin" => ENABLED StartInstall(i)
          /\ logins[i].pc = "done" => logins[i].installed = i)
  /\ [][\A j \in LoginIds :
          (logins[j].kind = "cron" /\ Succeeds(j) /\ ~loggedIn) =>
            /\ BhRestToken = 0 /\ restUrl = 0
            /\ loggedIn'
            /\ BhRestToken' = ServerSession(j).BhRestToken
            /\ restUrl' = ServerSession(j).restUrl]_vars

C24_Witness ==
  \E i \in StartFailed :
    /\ logins[i].installed = i /\ task = i /\ i \in scheduled
    /\ Len(events) = 2
    /\ events[1] = [name |-> "loginFailed", id |-> i, token |-> NoToken]
    /\ events[2].name = "login"
    /\ logins[events[2].id].kind = "cron"
    /\ loggedIn
    /\ BhRestToken = ServerSession(events[2].id).BhRestToken

\* every startLoginCron() called so far has returned or thrown
NoStartPending ==
  \A i \in LoginIds :
    logins[i].kind = "startLoginCron" => logins[i].pc = "done"

\* C25: once stopLoginCron() has returned and every startLoginCron() called
\* before it has finished, no task is scheduled: right after a
\* stopLoginCron() with no startLoginCron() pending, and when the only
\* startLoginCron(), suspended in its login() while stopLoginCron() was
\* called, finishes.
C25_StopLeavesNoDriver ==
  /\ []((last.op = "stopLoginCron" /\ NoStartPending) => scheduled = {})
  /\ [][\A i \in LoginIds :
          (/\ logins[i].kind = "startLoginCron"
           /\ \A k \in LoginIds \ {i} : logins[k].kind # "startLoginCron"
           /\ logins[i].history # "stopped"
           /\ cronHistory = "stopped"
           /\ logins[i].pc # "done"
           /\ logins'[i].pc = "done") =>
            scheduled' = {}]_vars

\* C26: when two invocations of login() overlap and both succeed, the
\* session stored once both have finished is the one acquired by the
\* invocation that was started last.
C26_LastStartedWins ==
  \A i, j \in LoginIds :
    (/\ i < j
     /\ Succeeded = {i, j}
     /\ ~logins[j].hadSession
     /\ InFlight = {}) =>
      /\ BhRestToken = ServerSession(j).BhRestToken
      /\ restUrl = ServerSession(j).restUrl

====
